---------------------------- MODULE Spec2Model ----------------------------
(***************************************************************************)
(* The LZMA2 chunk framing of src/decode/lzma2.rs as a state machine.      *)
(*                                                                         *)
(* decode_stream is one sequential loop.  The model cuts it at the places  *)
(* where control can rest between two reads of the input: the top of the   *)
(* loop (pc = "status"), the dispatch on the status byte just read         *)
(* (pc = "dispatch"), the symbol loop of DecoderState::process             *)
(* (pc = "process") and the return (pc = "done").                          *)
(*                                                                         *)
(* The input is a forward-only reader, so its bytes are drawn when they    *)
(* are read.  A read of several bytes that finds the input exhausted has   *)
(* taken the bytes there were: they are consumed although the read fails.  *)
(* `chunk` holds the bytes delivered since the status byte of the current  *)
(* chunk.  `rest` is the number of input bytes behind the end-of-stream    *)
(* marker; it is an attribute of the input that a run reveals only when it *)
(* returns Ok.                                                             *)
(*                                                                         *)
(* The collaborators lzma2.rs calls (LZAccumBuffer, DecoderState,          *)
(* RangeDecoder, SubBufRead) are not part of src/; their operations are    *)
(* modelled from the specification's sections 4.2-4.4.  The bit-level      *)
(* decoding of a symbol is abstracted to a choice of the symbol and of the *)
(* number of packed bytes its decoding pulls in.                           *)
(***************************************************************************)
EXTENDS Integers, Sequences, FiniteSets, TLC

(***************************************************************************)
(* Bounds of the model.                                                    *)
(***************************************************************************)
\* Total number of decoded bytes a run may produce.
MaxOut == 4
\* Largest value of the low byte of an unpacked-size field that is drawn.
MaxSizeLo == 1
\* Largest number of unread input bytes behind the end-of-stream marker.
MaxRest == 1
\* Largest number of raw bytes a read of a chunk body takes before it finds
\* the input exhausted.
MaxShort == 2

(***************************************************************************)
(* Input alphabets, one per read site.                                     *)
(***************************************************************************)
\* Status bytes: the three small codes, the ends of the illegal range and
\* one compressed code of every reset level.
StatusBytes == {0, 1, 2, 3, 127, 128, 160, 192, 224}
\* 16-bit unpacked-size fields (the value read_u16::<BigEndian> returns).
\* 256 and 0xFFFF declare more than an input of the model supplies.
UnpackedFields == (0..MaxSizeLo) \cup {256, 65535}
\* 16-bit unpacked-size fields of compressed chunks; 0xFFFF is the largest.
LzmaUnpackedFields == (0..MaxSizeLo) \cup {65535}
\* 16-bit packed-size fields: packed sizes 4 (too short for the range
\* coder's prefix), 5 (the prefix alone) and 8.
PackedFields == {3, 4, 7}
\* Property bytes: 0 -> (0,0,0), 93 -> (3,0,2), 37 -> lc + lp = 5, and the
\* first byte that is >= 225.
PropBytes == {0, 37, 93, 225}
\* Payload bytes (raw bytes of uncompressed chunks, decoded literals).
Data == {0, 1}
\* Bytes of a packed region: their values do not steer the abstract decoder.
PackedBytes == {0}

AllBytes == 0..255

(***************************************************************************)
(* State.                                                                  *)
(***************************************************************************)
VARIABLES
    pc,          \* "status" | "dispatch" | "process" | "done"
    result,      \* "none" | "ok" | "err"
    error,       \* the kind of the error returned, "" when none
    chunk,       \* input bytes delivered since the current status byte, in order
    rest,        \* -1; after Ok: the input bytes left behind the end marker
    status,      \* the status byte of the current chunk, -1 before the first
    output,      \* LZAccumBuffer: [buf, sink, finished]
    decoder,     \* DecoderState: [lc, lp, pb, state, rep, probs, unpacked_size]
    limit,       \* SubBufRead: bytes of the packed region still readable
    calls,       \* operations invoked on output and decoder for the current chunk
    \* History variables, read by the properties only.
    chunkBase,   \* number of decoded bytes when the current chunk began
    sinceReset,  \* bytes appended since the latest chunk that declares reset_dict
    lastCopy,    \* the latest accepted copy: [dist, hist], hist = sinceReset before it
    owed,        \* input bytes still needed to supply every declared packed region
    declared,    \* sum of the declared unpacked sizes of the chunks completed
    ref          \* the reference reading of the input as uncompressed chunks

vars == <<pc, result, error, chunk, rest, status, output, decoder, limit,
          calls, chunkBase, sinceReset, lastCopy, owed, declared, ref>>

(***************************************************************************)
(* Helpers.                                                                *)
(***************************************************************************)
Min(a, b) == IF a < b THEN a ELSE b

\* The two bytes of a 16-bit field in big-endian order.
BEBytes(v) == <<v \div 256, v % 256>>

\* read_u16::<BigEndian>: the value of two bytes read in stream order.
ReadU16BE(hi, lo) == hi * 256 + lo

\* What a failing read_u16 has taken from the reader: nothing, or the first
\* byte of a field.
PartialU16(fields) == {<<>>} \cup {<<f \div 256>> : f \in fields}

\* Everything decoded so far: what went to the sink, then what is buffered.
Output == output.sink \o output.buf

(***************************************************************************)
(* lzma2.rs: the pure computations on header bytes.                        *)
(***************************************************************************)

\* Dispatch with the compressed test on bit 6 (0x40) instead of bit 7.
Dispatch_Bit6(s) ==
    IF s = 0 THEN "end"
    ELSE IF s = 1 THEN "uncompressed_reset"
    ELSE IF s = 2 THEN "uncompressed"
    ELSE IF (s \div 64) % 2 = 0 THEN "invalid"
    ELSE "lzma"

\* decode_stream's if/else chain on the status byte, with the test that
\* opens parse_lzma (status & 0x80 == 0 is an error).
Dispatch(s) ==
    IF s = 0 THEN "end"
    ELSE IF s = 1 THEN "uncompressed_reset"
    ELSE IF s = 2 THEN "uncompressed"
    ELSE IF (s \div 128) % 2 = 0 THEN "invalid"
    ELSE "lzma"

\* (status >> 5) & 0x3
ResetLevel(s) == (s \div 32) % 4

\* ResetFlags with level 0 asking for a state reset.
ResetFlags_Level0State(s) ==
    CASE ResetLevel(s) = 0 -> [dict |-> FALSE, state |-> TRUE,  props |-> FALSE]
      [] ResetLevel(s) = 1 -> [dict |-> FALSE, state |-> TRUE,  props |-> FALSE]
      [] ResetLevel(s) = 2 -> [dict |-> FALSE, state |-> TRUE,  props |-> FALSE]
      [] ResetLevel(s) = 3 -> [dict |-> TRUE,  state |-> TRUE,  props |-> TRUE]

\* ResetFlags with level 2 also asking for new properties.
ResetFlags_Level2Props(s) ==
    CASE ResetLevel(s) = 0 -> [dict |-> FALSE, state |-> FALSE, props |-> FALSE]
      [] ResetLevel(s) = 1 -> [dict |-> FALSE, state |-> TRUE,  props |-> FALSE]
      [] ResetLevel(s) = 2 -> [dict |-> FALSE, state |-> TRUE,  props |-> TRUE]
      [] ResetLevel(s) = 3 -> [dict |-> TRUE,  state |-> TRUE,  props |-> TRUE]

\* The match on the reset level: (reset_dict, reset_state, reset_props).
ResetFlags(s) ==
    CASE ResetLevel(s) = 0 -> [dict |-> FALSE, state |-> FALSE, props |-> FALSE]
      [] ResetLevel(s) = 1 -> [dict |-> FALSE, state |-> TRUE,  props |-> FALSE]
      [] ResetLevel(s) = 2 -> [dict |-> FALSE, state |-> TRUE,  props |-> FALSE]
      [] ResetLevel(s) = 3 -> [dict |-> TRUE,  state |-> TRUE,  props |-> TRUE]

\* ((((status & 0x1F) as u64) << 16) | (unpacked_size as u64)) + 1; the
\* field is below 2^16, so the bitwise or of the two parts is their sum.
LzmaUnpackedSize(s, field) == ((s % 32) * 65536 + field) + 1

\* PackedSize with the addition done in the field's 16 bits.
PackedSize_Wraps(field) == (field + 1) % 65536

\* (packed_size as usize) + 1: the field is widened first, so the sum is
\* taken in usize and stays below 2^17.
PackedSize(field) == field + 1

\* UncompressedSize without the + 1.
UncompressedSize_NoPlusOne(field) == field

\* parse_uncompressed: (unpacked_size as usize) + 1
UncompressedSize(field) == field + 1

\* pb = props; lc = pb % 9; pb /= 9; lp = pb % 5; pb /= 5
DecodeProps(props) ==
    LET pb0 == props
        lc  == pb0 % 9
        pb1 == pb0 \div 9
        lp  == pb1 % 5
        pb2 == pb1 \div 5
    IN  [lc |-> lc, lp |-> lp, pb |-> pb2]

\* PropsError with the range test off by one (> 225).
PropsError_OffByOne(props) ==
    IF props > 225 THEN "props-range"
    ELSE IF DecodeProps(props).lc + DecodeProps(props).lp > 4 THEN "props-lclp"
    ELSE ""

\* The two rejections of a property byte, in the order the code tests them.
PropsError(props) ==
    IF props >= 225 THEN "props-range"
    ELSE IF DecodeProps(props).lc + DecodeProps(props).lp > 4 THEN "props-lclp"
    ELSE ""

\* Bytes RangeDecoder::new takes from the bounded view (spec 4.4).
RcInitBytes == 5

(***************************************************************************)
(* LZAccumBuffer (spec 4.3).                                               *)
(***************************************************************************)
LZNew == [buf |-> <<>>, sink |-> <<>>, finished |-> FALSE]

\* append_bytes: the bytes extend the history.
LZAppendBytes(o, bytes) == [o EXCEPT !.buf = o.buf \o bytes]

\* reset: the history is dropped from the window; what it held has been
\* emitted, so it goes to the sink.
LZReset(o) == [o EXCEPT !.sink = o.sink \o o.buf, !.buf = <<>>]

\* copy: len bytes, each the byte dist positions before the end of the
\* history at the moment it is produced.
RECURSIVE CopyBytes(_, _, _)
CopyBytes(buf, len, dist) ==
    IF len = 0 THEN buf
    ELSE CopyBytes(Append(buf, buf[Len(buf) + 1 - dist]), len - 1, dist)

LZCopyOk(o, dist) == dist <= Len(o.buf)

\* LZAppendLz copying from the history as it stood before the copy: what
\* lies behind its end reads as zero.
LZAppendLz_NoOverlap(o, len, dist) ==
    [o EXCEPT !.buf = o.buf \o [j \in 1..len |->
                         IF j <= dist THEN o.buf[Len(o.buf) - dist + j] ELSE 0]]

LZAppendLz(o, len, dist) == [o EXCEPT !.buf = CopyBytes(o.buf, len, dist)]

\* finish: flush to the sink, end of output.
LZFinish(o) == [buf |-> <<>>, sink |-> o.sink \o o.buf, finished |-> TRUE]

(***************************************************************************)
(* DecoderState (spec 3 and 4.2).  unpacked_size = -1 stands for None.     *)
(***************************************************************************)
NoReps == <<0, 0, 0, 0>>

DecoderNew(lc, lp, pb, unpacked) ==
    [lc |-> lc, lp |-> lp, pb |-> pb, state |-> 0, rep |-> NoReps,
     probs |-> "neutral", unpacked_size |-> unpacked]

\* reset_state(lc, lp, pb): counters neutral, automaton initial, rep
\* history cleared, properties set.
ResetState(d, lc, lp, pb) ==
    [d EXCEPT !.lc = lc, !.lp = lp, !.pb = pb, !.state = 0, !.rep = NoReps,
              !.probs = "neutral"]

\* set_unpacked_size(Some(n)): the remaining-bytes counter of the next
\* process call.
SetUnpackedSize(d, n) == [d EXCEPT !.unpacked_size = n]

\* The 12-state automaton: successor after a literal, a match, a long rep
\* and a short rep.
StateAfterLiteral(st) == IF st < 4 THEN 0 ELSE IF st < 10 THEN st - 3 ELSE st - 6
StateAfterMatch(st) == IF st < 7 THEN 7 ELSE 10
StateAfterRep(st) == IF st < 7 THEN 8 ELSE 11
StateAfterShortRep(st) == IF st < 7 THEN 9 ELSE 11

\* A new distance enters the rep history in front, the oldest leaves.
PushRep(rep, d0) == <<d0, rep[1], rep[2], rep[3]>>

\* The rep distance used becomes the most recent one.
UseRep(rep, i) ==
    CASE i = 1 -> rep
      [] i = 2 -> <<rep[2], rep[1], rep[3], rep[4]>>
      [] i = 3 -> <<rep[3], rep[1], rep[2], rep[4]>>
      [] i = 4 -> <<rep[4], rep[1], rep[2], rep[3]>>

\* A decoded literal.
DecLiteral(d) ==
    [d EXCEPT !.state = StateAfterLiteral(d.state), !.probs = "adapted",
              !.unpacked_size = d.unpacked_size - 1]

\* A decoded match of a new distance dist (kept as dist - 1).
DecMatch(d, dist, len) ==
    [d EXCEPT !.state = StateAfterMatch(d.state), !.probs = "adapted",
              !.rep = PushRep(d.rep, dist - 1),
              !.unpacked_size = d.unpacked_size - len]

\* A decoded long rep of history entry i.
DecRep(d, i, len) ==
    [d EXCEPT !.state = StateAfterRep(d.state), !.probs = "adapted",
              !.rep = UseRep(d.rep, i),
              !.unpacked_size = d.unpacked_size - len]

\* A decoded short rep: the latest distance again, one byte.
DecShortRep(d) ==
    [d EXCEPT !.state = StateAfterShortRep(d.state), !.probs = "adapted",
              !.unpacked_size = d.unpacked_size - 1]

(***************************************************************************)
(* History: the input read as the wire format's uncompressed chunks.       *)
(* mode is where the next byte falls: "status", "hi", "lo" (size field),   *)
(* "body" (need more raw bytes), "end" (the last byte was the terminator   *)
(* at a chunk boundary), "other" (not a run of uncompressed chunks).       *)
(***************************************************************************)
RefInit == [mode |-> "status", need |-> 0, payload |-> <<>>]

RefStep(r, b) ==
    CASE r.mode = "status" ->
           IF b = 0 THEN [r EXCEPT !.mode = "end"]
           ELSE IF b \in {1, 2} THEN [r EXCEPT !.mode = "hi"]
           ELSE [mode |-> "other", need |-> 0, payload |-> <<>>]
      [] r.mode = "hi" -> [r EXCEPT !.mode = "lo", !.need = b * 256]
      [] r.mode = "lo" -> [r EXCEPT !.mode = "body", !.need = r.need + b + 1]
      [] r.mode = "body" ->
           [mode |-> IF r.need = 1 THEN "status" ELSE "body",
            need |-> r.need - 1,
            payload |-> Append(r.payload, b)]
      [] OTHER -> [mode |-> "other", need |-> 0, payload |-> <<>>]

RECURSIVE RefFeed(_, _)
RefFeed(r, bytes) ==
    IF bytes = <<>> THEN r
    ELSE RefFeed(RefStep(r, Head(bytes)), Tail(bytes))

\* What is still owed of the declared packed regions once n bytes arrive.
Owe(o, n) == IF o > n THEN o - n ELSE 0

\* The declared unpacked size of the current chunk, from its header bytes
\* as the wire format defines it.
DeclaredSize ==
    IF status \in {1, 2}
    THEN ReadU16BE(chunk[2], chunk[3]) + 1
    ELSE (status % 32) * 65536 + ReadU16BE(chunk[2], chunk[3]) + 1

\* Whether a status byte declares a dictionary reset.
DeclaresDictReset(s) == s = 1 \/ (s >= 128 /\ (s \div 32) % 4 = 3)

(***************************************************************************)
(* The initial state: decode_stream's first two statements.                *)
(***************************************************************************)
Init ==
    /\ pc = "status"
    /\ result = "none"
    /\ error = ""
    /\ chunk = <<>>
    /\ rest = -1
    /\ status = -1
    /\ output = LZNew
    /\ decoder = DecoderNew(0, 0, 0, -1)
    /\ limit = 0
    /\ calls = <<>>
    /\ chunkBase = 0
    /\ sinceReset = 0
    /\ lastCopy = [dist |-> 0, hist |-> 0]
    /\ owed = 0
    /\ declared = 0
    /\ ref = RefInit

(***************************************************************************)
(* Reads and returns.                                                      *)
(***************************************************************************)
\* The reader delivers bytes to the current chunk.
Feed(bytes) ==
    /\ chunk' = chunk \o bytes
    /\ ref' = RefFeed(ref, bytes)
    /\ owed' = Owe(owed, Len(bytes))

NoFeed == UNCHANGED <<chunk, ref, owed>>

\* Fail with the error noted and the loop left running.
Fail_KeepsGoing(kind) ==
    /\ pc' = pc
    /\ result' = "err"
    /\ error' = kind
    /\ rest' = rest

\* An early return with Err (try!, ?, return Err): the call is over.
Fail(kind) ==
    /\ pc' = "done"
    /\ result' = "err"
    /\ error' = kind
    /\ rest' = rest

\* The call goes on.
Running ==
    /\ result' = result
    /\ error' = error
    /\ rest' = rest

(***************************************************************************)
(* decode_stream: the loop.                                                *)
(***************************************************************************)
\* stream.read_u8() delivers the status byte of a new chunk.
ReadStatus ==
    /\ pc = "status"
    /\ \E s \in StatusBytes :
         /\ chunk' = <<s>>
         /\ status' = s
         /\ ref' = RefFeed(ref, <<s>>)
    /\ owed' = Owe(owed, 1)
    /\ chunkBase' = Len(Output)
    /\ calls' = <<>>
    /\ limit' = 0
    /\ pc' = "dispatch"
    /\ Running
    /\ UNCHANGED <<output, decoder, sinceReset, lastCopy, declared>>

\* stream.read_u8() fails: "LZMA2 expected new status".
ReadStatusEof ==
    /\ pc = "status"
    /\ Fail("status-eof")
    /\ NoFeed
    /\ UNCHANGED <<status, output, decoder, limit, calls, chunkBase,
                   sinceReset, lastCopy, declared>>

\* EndOfStream reading one more byte behind the marker.
EndOfStream_ReadsOn ==
    /\ pc = "dispatch"
    /\ Dispatch(status) = "end"
    /\ output' = LZFinish(output)
    /\ calls' = Append(calls, "finish")
    /\ pc' = "done"
    /\ result' = "ok"
    /\ error' = ""
    /\ rest' \in 0..MaxRest
    /\ \E b \in Data : Feed(<<b>>)
    /\ UNCHANGED <<status, decoder, limit, chunkBase, sinceReset, lastCopy,
                   declared>>

\* EndOfStream returning Ok without decoder.output.finish().
EndOfStream_NoFinish ==
    /\ pc = "dispatch"
    /\ Dispatch(status) = "end"
    /\ pc' = "done"
    /\ result' = "ok"
    /\ error' = ""
    /\ rest' \in 0..MaxRest
    /\ NoFeed
    /\ UNCHANGED <<status, output, decoder, limit, calls, chunkBase,
                   sinceReset, lastCopy, declared>>

\* status == 0: break, then decoder.output.finish()? and Ok(()).
EndOfStream ==
    /\ pc = "dispatch"
    /\ Dispatch(status) = "end"
    /\ output' = LZFinish(output)
    /\ calls' = Append(calls, "finish")
    /\ pc' = "done"
    /\ result' = "ok"
    /\ error' = ""
    /\ rest' \in 0..MaxRest
    /\ NoFeed
    /\ UNCHANGED <<status, decoder, limit, chunkBase, sinceReset, lastCopy,
                   declared>>

\* status == 0 and the sink refuses the final write: finish() returns Err.
FinishFail ==
    /\ pc = "dispatch"
    /\ Dispatch(status) = "end"
    /\ calls' = Append(calls, "finish")
    /\ Fail("sink")
    /\ NoFeed
    /\ UNCHANGED <<status, output, decoder, limit, chunkBase, sinceReset,
                   lastCopy, declared>>

\* parse_lzma's first test: the status has no high bit.
InvalidStatus ==
    /\ pc = "dispatch"
    /\ Dispatch(status) = "invalid"
    /\ Fail("invalid-status")
    /\ NoFeed
    /\ UNCHANGED <<status, output, decoder, limit, calls, chunkBase,
                   sinceReset, lastCopy, declared>>

(***************************************************************************)
(* parse_uncompressed.                                                     *)
(***************************************************************************)
IsUncompressed == Dispatch(status) \in {"uncompressed_reset", "uncompressed"}

\* The reset_dict argument decode_stream passes.
UncompressedResetDict == Dispatch(status) = "uncompressed_reset"

\* read_u16 fails: fewer than two bytes are left.
UncompressedSizeEof ==
    /\ pc = "dispatch"
    /\ IsUncompressed
    /\ Fail("size-eof")
    /\ \E part \in PartialU16(UnpackedFields) : Feed(part)
    /\ UNCHANGED <<status, output, decoder, limit, calls, chunkBase,
                   sinceReset, lastCopy, declared>>

\* The size is read, reset_dict holds and the sink refuses the write of
\* decoder.output.reset().
UncompressedResetFail ==
    /\ pc = "dispatch"
    /\ IsUncompressed
    /\ UncompressedResetDict
    /\ \E f \in UnpackedFields : Feed(BEBytes(f))
    /\ calls' = Append(calls, "reset")
    /\ Fail("sink")
    /\ UNCHANGED <<status, output, decoder, limit, chunkBase, sinceReset,
                   lastCopy, declared>>

\* The size is read, the dictionary is reset if asked, and read_exact finds
\* fewer bytes than the declared size; it has taken those.
UncompressedBodyEof ==
    /\ pc = "dispatch"
    /\ IsUncompressed
    /\ \E f \in UnpackedFields :
         \E k \in 0..Min(UncompressedSize(f) - 1, MaxShort) :
           \E part \in [1..k -> Data] : Feed(BEBytes(f) \o part)
    /\ output' = IF UncompressedResetDict THEN LZReset(output) ELSE output
    /\ calls' = IF UncompressedResetDict THEN Append(calls, "reset") ELSE calls
    /\ sinceReset' = IF DeclaresDictReset(status) THEN 0 ELSE sinceReset
    /\ Fail("body-eof")
    /\ UNCHANGED <<status, decoder, limit, chunkBase, lastCopy, declared>>

\* The whole chunk: size, optional reset, the raw bytes, append_bytes.
UncompressedChunk ==
    /\ pc = "dispatch"
    /\ IsUncompressed
    /\ \E f \in UnpackedFields :
         /\ Len(Output) + UncompressedSize(f) <= MaxOut
         /\ \E body \in [1..UncompressedSize(f) -> Data] :
              /\ Feed(BEBytes(f) \o body)
              /\ output' = LZAppendBytes(
                     IF UncompressedResetDict THEN LZReset(output) ELSE output,
                     body)
         /\ sinceReset' = (IF DeclaresDictReset(status) THEN 0 ELSE sinceReset)
                          + (f + 1)
         /\ declared' = declared + (f + 1)
    /\ calls' = (IF UncompressedResetDict THEN Append(calls, "reset") ELSE calls)
                \o <<"append_bytes">>
    /\ pc' = "status"
    /\ Running
    /\ UNCHANGED <<status, decoder, limit, chunkBase, lastCopy>>

(***************************************************************************)
(* parse_lzma: from the size fields to RangeDecoder::new.                  *)
(***************************************************************************)
IsLzma == Dispatch(status) = "lzma"

\* OutputAfterDictReset with the reset left out.
OutputWithoutDictReset == output

\* if reset_dict { decoder.output.reset()?; }
OutputAfterDictReset ==
    IF ResetFlags(status).dict THEN LZReset(output) ELSE output

CallsAfterDictReset ==
    IF ResetFlags(status).dict THEN Append(calls, "reset") ELSE calls

\* The property bytes the chunk may read: none (-1) unless reset_props.
PropsRead ==
    IF ResetFlags(status).state /\ ResetFlags(status).props
    THEN PropBytes ELSE {-1}

PropsBytesOf(pr) == IF pr = -1 THEN <<>> ELSE <<pr>>

\* DecoderAfterStateReset storing new properties without reset_state.
DecoderPropsOnly(pr) ==
    IF ResetFlags(status).state /\ ResetFlags(status).props
    THEN [decoder EXCEPT !.lc = DecodeProps(pr).lc, !.lp = DecodeProps(pr).lp,
                         !.pb = DecodeProps(pr).pb]
    ELSE decoder

\* DecoderAfterStateReset calling reset_state for a dictionary reset only.
DecoderResetOnDictOnly(pr) ==
    IF ResetFlags(status).dict
    THEN ResetState(decoder, DecodeProps(pr).lc, DecodeProps(pr).lp,
                    DecodeProps(pr).pb)
    ELSE decoder

\* DecoderAfterStateReset falling back to the initial properties when the
\* chunk brings none.
DecoderDefaultProps(pr) ==
    IF ResetFlags(status).state
    THEN IF ResetFlags(status).props
         THEN ResetState(decoder, DecodeProps(pr).lc, DecodeProps(pr).lp,
                         DecodeProps(pr).pb)
         ELSE ResetState(decoder, 0, 0, 0)
    ELSE decoder

\* if reset_state { ...; decoder.reset_state(lc, lp, pb); }, with the
\* property byte pr read when reset_props (pr = -1: none was read).
DecoderAfterStateReset(pr) ==
    IF ResetFlags(status).state
    THEN IF ResetFlags(status).props
         THEN ResetState(decoder, DecodeProps(pr).lc, DecodeProps(pr).lp,
                         DecodeProps(pr).pb)
         ELSE ResetState(decoder, decoder.lc, decoder.lp, decoder.pb)
    ELSE decoder

\* decoder.set_unpacked_size(Some(unpacked_size)) after the optional reset.
DecoderAtProcess(pr, u) ==
    SetUnpackedSize(DecoderAfterStateReset(pr), LzmaUnpackedSize(status, u))

CallsAtProcess ==
    CallsAfterDictReset
    \o (IF ResetFlags(status).state THEN <<"reset_state">> ELSE <<>>)
    \o <<"set_unpacked_size">>

\* read_u16 of the unpacked size fails.
LzmaUnpackedEof ==
    /\ pc = "dispatch"
    /\ IsLzma
    /\ Fail("size-eof")
    /\ \E part \in PartialU16(LzmaUnpackedFields) : Feed(part)
    /\ UNCHANGED <<status, output, decoder, limit, calls, chunkBase,
                   sinceReset, lastCopy, declared>>

\* read_u16 of the packed size fails.
LzmaPackedEof ==
    /\ pc = "dispatch"
    /\ IsLzma
    /\ \E u \in LzmaUnpackedFields, part \in PartialU16(PackedFields) :
         Feed(BEBytes(u) \o part)
    /\ Fail("psize-eof")
    /\ UNCHANGED <<status, output, decoder, limit, calls, chunkBase,
                   sinceReset, lastCopy, declared>>

\* reset_dict holds and the sink refuses the write of output.reset().
LzmaResetFail ==
    /\ pc = "dispatch"
    /\ IsLzma
    /\ ResetFlags(status).dict
    /\ \E u \in LzmaUnpackedFields, p \in PackedFields :
         Feed(BEBytes(u) \o BEBytes(p))
    /\ calls' = Append(calls, "reset")
    /\ Fail("sink")
    /\ UNCHANGED <<status, output, decoder, limit, chunkBase, sinceReset,
                   lastCopy, declared>>

\* reset_props holds and read_u8 of the property byte fails.
LzmaPropsEof ==
    /\ pc = "dispatch"
    /\ IsLzma
    /\ ResetFlags(status).state /\ ResetFlags(status).props
    /\ \E u \in LzmaUnpackedFields, p \in PackedFields :
         Feed(BEBytes(u) \o BEBytes(p))
    /\ output' = OutputAfterDictReset
    /\ calls' = CallsAfterDictReset
    /\ sinceReset' = IF DeclaresDictReset(status) THEN 0 ELSE sinceReset
    /\ Fail("props-eof")
    /\ UNCHANGED <<status, decoder, limit, chunkBase, lastCopy, declared>>

\* LzmaPropsInvalid with the property byte validated before the dictionary
\* reset: the rejected chunk leaves the LZBuffer as it was.
LzmaPropsInvalid_BeforeReset ==
    /\ pc = "dispatch"
    /\ IsLzma
    /\ \E u \in LzmaUnpackedFields, p \in PackedFields, pr \in PropsRead :
         /\ pr # -1
         /\ PropsError(pr) # ""
         /\ Feed(BEBytes(u) \o BEBytes(p) \o <<pr>>)
         /\ Fail(PropsError(pr))
    /\ UNCHANGED <<status, output, decoder, limit, calls, chunkBase,
                   sinceReset, lastCopy, declared>>

\* The property byte is read and rejected (>= 225, or lc + lp > 4).
LzmaPropsInvalid ==
    /\ pc = "dispatch"
    /\ IsLzma
    /\ \E u \in LzmaUnpackedFields, p \in PackedFields, pr \in PropsRead :
         /\ pr # -1
         /\ PropsError(pr) # ""
         /\ Feed(BEBytes(u) \o BEBytes(p) \o <<pr>>)
         /\ Fail(PropsError(pr))
    /\ output' = OutputAfterDictReset
    /\ calls' = CallsAfterDictReset
    /\ sinceReset' = IF DeclaresDictReset(status) THEN 0 ELSE sinceReset
    /\ UNCHANGED <<status, decoder, limit, chunkBase, lastCopy, declared>>

\* ViewCap without a cap of the chunk's own: the largest a field can give.
ViewCap_Unbounded(u, p) == PackedSize(65535)

\* ViewCap taking the unpacked size for the cap.
ViewCap_Unpacked(u, p) == LzmaUnpackedSize(status, u)

\* SubBufRead::new(stream, packed_size): the cap of the bounded view of a
\* chunk with size fields u and p.
ViewCap(u, p) == PackedSize(p)

\* The header is accepted and RangeDecoder::new finds fewer than its five
\* bytes in the bounded view: the packed size is below five, or the input
\* ends first.  "LZMA stream too short".  The k bytes the view did deliver
\* are consumed.
LzmaRcShort ==
    /\ pc = "dispatch"
    /\ IsLzma
    /\ \E u \in LzmaUnpackedFields, p \in PackedFields, pr \in PropsRead :
         /\ pr # -1 => PropsError(pr) = ""
         /\ \E k \in 0..Min(RcInitBytes - 1, ViewCap(u, p)) :
              \E part \in [1..k -> PackedBytes] :
                Feed(BEBytes(u) \o BEBytes(p) \o PropsBytesOf(pr) \o part)
         /\ decoder' = DecoderAtProcess(pr, u)
    /\ output' = OutputAfterDictReset
    /\ calls' = CallsAtProcess \o <<"rc_new">>
    /\ sinceReset' = IF DeclaresDictReset(status) THEN 0 ELSE sinceReset
    /\ Fail("rc-init")
    /\ UNCHANGED <<status, limit, chunkBase, lastCopy, declared>>

\* The header is accepted and the range decoder is built over the bounded
\* view: decoder.process starts.
LzmaBegin ==
    /\ pc = "dispatch"
    /\ IsLzma
    /\ \E u \in LzmaUnpackedFields, p \in PackedFields, pr \in PropsRead :
         /\ pr # -1 => PropsError(pr) = ""
         /\ ViewCap(u, p) >= RcInitBytes
         /\ \E init \in [1..RcInitBytes -> PackedBytes] :
              LET hdr == BEBytes(u) \o BEBytes(p) \o PropsBytesOf(pr)
                  due == Owe(owed, Len(hdr))
              IN  /\ chunk' = chunk \o hdr \o init
                  /\ ref' = RefFeed(ref, hdr \o init)
                  /\ owed' = Owe(IF p + 1 > due THEN p + 1 ELSE due, Len(init))
         /\ decoder' = DecoderAtProcess(pr, u)
         /\ limit' = ViewCap(u, p) - RcInitBytes
    /\ output' = OutputAfterDictReset
    /\ calls' = CallsAtProcess \o <<"rc_new", "process">>
    /\ sinceReset' = IF DeclaresDictReset(status) THEN 0 ELSE sinceReset
    /\ pc' = "process"
    /\ Running
    /\ UNCHANGED <<status, chunkBase, lastCopy, declared>>

(***************************************************************************)
(* DecoderState::process (spec 4.2): one step per symbol.  Decoding a      *)
(* symbol pulls k further bytes through the bounded view.                  *)
(***************************************************************************)
PullCounts == {0, 1}

\* More output is due and the model's output cap leaves room for it.
MoreDue == decoder.unpacked_size > 0 /\ Len(Output) < MaxOut

\* SubBufRead: at most `limit` further bytes of the input are delivered.
Pull(k) ==
    /\ k <= limit
    /\ limit' = limit - k
    /\ Feed([i \in 1..k |-> 0])

Lengths == 2..MaxOut
Distances == 1..MaxOut

\* The counter has reached zero (a copy takes its whole length off the
\* counter, so the last copy may carry it past zero): process returns Ok,
\* parse_lzma returns Ok and the loop goes round.
ProcessReturn ==
    /\ pc = "process"
    /\ decoder.unpacked_size <= 0
    /\ declared' = declared + DeclaredSize
    /\ pc' = "status"
    /\ Running
    /\ NoFeed
    /\ UNCHANGED <<status, output, decoder, limit, calls, chunkBase,
                   sinceReset, lastCopy>>

\* A literal.
ProcessLiteral ==
    /\ pc = "process"
    /\ MoreDue
    /\ \E k \in PullCounts : Pull(k)
    /\ \E b \in Data : output' = LZAppendBytes(output, <<b>>)
    /\ decoder' = DecLiteral(decoder)
    /\ calls' = Append(calls, "append_literal")
    /\ sinceReset' = sinceReset + 1
    /\ Running
    /\ UNCHANGED <<pc, status, chunkBase, lastCopy, declared>>

\* A match with a new distance.  The decoded length is whatever the
\* bitstream says: nothing compares it with what the chunk still owes.
ProcessMatch ==
    /\ pc = "process"
    /\ MoreDue
    /\ \E k \in PullCounts : Pull(k)
    /\ \E dist \in Distances, len \in Lengths :
         /\ LZCopyOk(output, dist)
         /\ Len(Output) + len <= MaxOut
         /\ output' = LZAppendLz(output, len, dist)
         /\ decoder' = DecMatch(decoder, dist, len)
         /\ lastCopy' = [dist |-> dist, hist |-> sinceReset]
         /\ sinceReset' = sinceReset + len
    /\ calls' = Append(calls, "append_lz")
    /\ Running
    /\ UNCHANGED <<pc, status, chunkBase, declared>>

\* A long rep: history entry i is used again with a decoded length.
ProcessRep ==
    /\ pc = "process"
    /\ MoreDue
    /\ \E k \in PullCounts : Pull(k)
    /\ \E i \in 1..4, len \in Lengths :
         /\ LZCopyOk(output, decoder.rep[i] + 1)
         /\ Len(Output) + len <= MaxOut
         /\ output' = LZAppendLz(output, len, decoder.rep[i] + 1)
         /\ decoder' = DecRep(decoder, i, len)
         /\ lastCopy' = [dist |-> decoder.rep[i] + 1, hist |-> sinceReset]
         /\ sinceReset' = sinceReset + len
    /\ calls' = Append(calls, "append_lz")
    /\ Running
    /\ UNCHANGED <<pc, status, chunkBase, declared>>

\* A short rep: one byte from the latest distance.
ProcessShortRep ==
    /\ pc = "process"
    /\ MoreDue
    /\ \E k \in PullCounts : Pull(k)
    /\ LZCopyOk(output, decoder.rep[1] + 1)
    /\ output' = LZAppendLz(output, 1, decoder.rep[1] + 1)
    /\ decoder' = DecShortRep(decoder)
    /\ lastCopy' = [dist |-> decoder.rep[1] + 1, hist |-> sinceReset]
    /\ sinceReset' = sinceReset + 1
    /\ calls' = Append(calls, "append_lz")
    /\ Running
    /\ UNCHANGED <<pc, status, chunkBase, declared>>

\* A copy whose distance exceeds the history: decode error.
ProcessBadDistance ==
    /\ pc = "process"
    /\ MoreDue
    /\ \E k \in PullCounts : Pull(k)
    /\ \E dist \in Distances : ~LZCopyOk(output, dist)
    /\ calls' = Append(calls, "append_lz")
    /\ Fail("decode-distance")
    /\ UNCHANGED <<status, output, decoder, chunkBase, sinceReset, lastCopy,
                   declared>>

\* The next symbol needs a byte and the bounded view has none: the cap of
\* the packed size is reached, or the input ends inside the region.
ProcessExhausted ==
    /\ pc = "process"
    /\ decoder.unpacked_size > 0
    /\ Fail("decode-eof")
    /\ NoFeed
    /\ UNCHANGED <<status, output, decoder, limit, calls, chunkBase,
                   sinceReset, lastCopy, declared>>

(***************************************************************************)
(* The specification.                                                      *)
(***************************************************************************)
Next ==
    \/ ReadStatus
    \/ ReadStatusEof
    \/ EndOfStream
    \/ FinishFail
    \/ InvalidStatus
    \/ UncompressedSizeEof
    \/ UncompressedResetFail
    \/ UncompressedBodyEof
    \/ UncompressedChunk
    \/ LzmaUnpackedEof
    \/ LzmaPackedEof
    \/ LzmaResetFail
    \/ LzmaPropsEof
    \/ LzmaPropsInvalid
    \/ LzmaRcShort
    \/ LzmaBegin
    \/ ProcessReturn
    \/ ProcessLiteral
    \/ ProcessMatch
    \/ ProcessRep
    \/ ProcessShortRep
    \/ ProcessBadDistance
    \/ ProcessExhausted

Spec == Init /\ [][Next]_vars

(***************************************************************************)
(* Properties.                                                             *)
(***************************************************************************)
Range(f) == {f[i] : i \in DOMAIN f}

Last(f) == f[Len(f)]

\* The level of a compressed status byte, as the wire format numbers it.
LevelOf(s) == (s \div 32) % 4

\* The dispatch of the first chunk of the input.  What a formula states of
\* the pure computations for all their arguments is evaluated there.
AtFirstDispatch == pc = "dispatch" /\ declared = 0 /\ chunkBase = 0

\* decoder.process has been entered and no symbol has been decoded yet.
AtChunkStart == pc = "process" /\ calls # <<>> /\ Last(calls) = "process"

\* The dispatch table of the status byte.
C1_Table(s) ==
    IF s = 0 THEN "end"
    ELSE IF s = 1 THEN "uncompressed_reset"
    ELSE IF s = 2 THEN "uncompressed"
    ELSE IF s >= 128 THEN "lzma"
    ELSE "invalid"

C1_Step ==
    /\ AtFirstDispatch => \A s \in AllBytes : Dispatch(s) = C1_Table(s)
    /\ (pc = "dispatch" /\ status = 0) =>
         /\ pc' = "done"
         /\ chunk' = chunk
         /\ calls' = <<"finish">>
         /\ result' = "ok" \/ error' = "sink"
    /\ (pc = "dispatch" /\ status = 1) =>
         /\ error' \in {"", "size-eof", "sink", "body-eof"}
         /\ error' # "size-eof" => calls'[1] = "reset"
         /\ error' = "" => (calls' = <<"reset", "append_bytes">> /\ pc' = "status")
    /\ (pc = "dispatch" /\ status = 2) =>
         /\ error' \in {"", "size-eof", "body-eof"}
         /\ "reset" \notin Range(calls')
         /\ error' = "" => (calls' = <<"append_bytes">> /\ pc' = "status")
    /\ (pc = "dispatch" /\ status >= 128) =>
         /\ "append_bytes" \notin Range(calls')
         /\ \/ pc' = "process" /\ result' = "none"
            \/ /\ result' = "err"
               /\ error' \in {"size-eof", "psize-eof", "sink", "props-eof",
                              "props-range", "props-lclp", "rc-init"}
    /\ (pc = "dispatch" /\ status \in 3..127) =>
         /\ result' = "err"
         /\ error' = "invalid-status"
         /\ pc' = "done"
         /\ chunk' = chunk
         /\ output' = output
         /\ decoder' = decoder
         /\ limit' = limit
         /\ calls' = calls

\* C1: every status byte 0..255 is dispatched as the table says (0 ends the
\* stream, 1 and 2 are uncompressed chunks with and without a dictionary
\* reset, 128..255 are compressed chunks, 3..127 fail with "invalid
\* status"), and an invalid status consumes no further input and modifies
\* neither the LZBuffer nor the DecoderState.
C1_Dispatch == [][C1_Step]_vars

C1_Witness ==
    /\ result = "err"
    /\ error = "invalid-status"
    /\ status = 127
    /\ chunkBase > 0

\* C2: a run of uncompressed chunks closed by 0x00 decodes successfully to
\* the concatenation of the raw payloads (the empty output for the lone
\* terminator), provided the sink takes the writes; while the input reads
\* as such a run, the decoder keeps step with it and can only fail because
\* the input ends.
C2_RoundTrip ==
    /\ (ref.mode # "other" /\ pc = "status") =>
         (ref.mode = "status" /\ Output = ref.payload)
    /\ (ref.mode = "end" /\ pc = "dispatch") => Dispatch(status) = "end"
    /\ (ref.mode = "end" /\ pc = "done" /\ error # "sink") =>
         /\ result = "ok"
         /\ output.sink = ref.payload
         /\ output.buf = <<>>
         /\ output.finished
    /\ (ref.mode # "other" /\ result = "err") =>
         \/ error = "sink"
         \/ ref.mode = "status" /\ error = "status-eof"
         \/ ref.mode \in {"hi", "lo"} /\ error = "size-eof"
         \/ ref.mode = "body" /\ error = "body-eof"

C2_Witness ==
    /\ result = "ok"
    /\ ref.mode = "end"
    /\ Len(ref.payload) = 3
    /\ Len(output.sink) = 3

C4_OkOnlyAtMarker ==
    /\ result = "ok" =>
         /\ pc = "done"
         /\ status = 0
         /\ chunk = <<0>>
         /\ rest \in 0..MaxRest
         /\ output.finished
    /\ error # "" => (result = "err" /\ pc = "done")
    /\ pc = "done" => result # "none"

C4_Witness ==
    /\ result = "ok"
    /\ rest > 0
    /\ declared > 0

\* C5: once a step has failed the call is over: the failing step appends
\* nothing and finishes nothing, and afterwards no input is read and no
\* operation of the LZBuffer or the DecoderState is invoked.
C5_StopsAtFirstFault ==
    [][ /\ result = "err" =>
             UNCHANGED <<chunk, output, decoder, limit, calls, ref, owed>>
        /\ (result' = "err" /\ result # "err") =>
             /\ pc' = "done"
             /\ Output' = Output
             /\ ~output'.finished
             /\ \A i \in (Len(calls) + 1)..Len(calls') :
                  calls'[i] \notin {"append_bytes", "append_literal"}
      ]_vars

C5_Witness ==
    /\ result = "err"
    /\ error = "body-eof"
    /\ chunkBase > 0

\* Whether the wire format rejects a property byte.
C6_Rejected(p) == p >= 225 \/ (p % 9) + ((p \div 9) % 5) > 4

C6_Step ==
    /\ (AtFirstDispatch /\ status >= 128 /\ LevelOf(status) = 3) =>
         \A p \in AllBytes :
           /\ (PropsError(p) # "") <=> C6_Rejected(p)
           /\ ~C6_Rejected(p) =>
                DecodeProps(p) = [lc |-> p % 9, lp |-> (p \div 9) % 5,
                                  pb |-> p \div 45]
    /\ (/\ pc = "dispatch"
        /\ status >= 128
        /\ LevelOf(status) = 3
        /\ Len(chunk') >= 6) =>
         LET p == chunk'[6] IN
         IF C6_Rejected(p)
         THEN /\ result' = "err"
              /\ error' \in {"props-range", "props-lclp"}
              /\ Len(chunk') = 6
              /\ limit' = limit
              /\ decoder' = decoder
              /\ "reset_state" \notin Range(calls')
              /\ "rc_new" \notin Range(calls')
         ELSE /\ error' \in {"", "rc-init"}
              /\ "reset_state" \in Range(calls')
              /\ decoder'.lc = p % 9
              /\ decoder'.lp = (p \div 9) % 5
              /\ decoder'.pb = p \div 45

\* C6: a property byte p of a level-3 chunk is rejected exactly when
\* p >= 225 or (p mod 9) + ((p div 9) mod 5) > 4, before reset_state, before
\* the range decoder is built and before a packed byte is read; otherwise
\* the chunk goes on with lc = p mod 9, lp = (p div 9) mod 5, pb = p div 45.
C6_PropsValidation == [][C6_Step]_vars

C6_Witness ==
    /\ result = "err"
    /\ error = "props-lclp"
    /\ chunk[6] = 37
    /\ chunkBase > 0

\* C7: a stream whose input supplies fewer bytes than a compressed chunk's
\* declared packed size is never decoded successfully.
C7_TruncationDetected == ~(result = "ok" /\ owed > rest)

\* C8: a copy is accepted only if its distance is within the bytes
\* appended since the latest chunk that declares a dictionary reset; the
\* history the LZBuffer holds is exactly those bytes, so a chunk with
\* reset_dict starts decoding on an empty history.
C8_DictReset ==
    /\ lastCopy.dist <= lastCopy.hist
    /\ ~output.finished => Len(output.buf) = sinceReset
    /\ (AtChunkStart /\ DeclaresDictReset(status)) => output.buf = <<>>

C8_Witness ==
    /\ pc = "process"
    /\ status = 224
    /\ Len(output.sink) > 0
    /\ Last(calls) = "append_lz"
    /\ lastCopy.dist = 1
    /\ lastCopy.hist = 1

\* C9: when the decoding of a level-3 chunk's bitstream begins, the
\* DecoderState and the LZBuffer history are a function of the chunk's own
\* header alone: counters neutral, automaton initial, rep history cleared,
\* (lc, lp, pb) from the property byte, the declared size as target, empty
\* history.  Nothing of what preceded the chunk is left.
C9_ResetIsolation ==
    (AtChunkStart /\ status >= 128 /\ LevelOf(status) = 3) =>
        /\ Len(chunk) = 6 + RcInitBytes
        /\ decoder = [lc |-> chunk[6] % 9,
                      lp |-> (chunk[6] \div 9) % 5,
                      pb |-> chunk[6] \div 45,
                      state |-> 0,
                      rep |-> <<0, 0, 0, 0>>,
                      probs |-> "neutral",
                      unpacked_size |-> DeclaredSize]
        /\ output.buf = <<>>
        /\ limit = ReadU16BE(chunk[4], chunk[5]) + 1 - RcInitBytes

C9_Witness ==
    /\ AtChunkStart
    /\ status = 224
    /\ chunk[6] = 93
    /\ lastCopy.dist > 0
    /\ Len(output.sink) > 0

\* The flags of each reset level.
C10_Table(l) ==
    CASE l = 0 -> [dict |-> FALSE, state |-> FALSE, props |-> FALSE]
      [] l = 1 -> [dict |-> FALSE, state |-> TRUE,  props |-> FALSE]
      [] l = 2 -> [dict |-> FALSE, state |-> TRUE,  props |-> FALSE]
      [] l = 3 -> [dict |-> TRUE,  state |-> TRUE,  props |-> TRUE]

\* The operations a compressed chunk of level l has invoked when the
\* decoding of its bitstream begins.
C10_Calls(l) ==
    CASE l = 0 -> <<"set_unpacked_size", "rc_new", "process">>
      [] l \in {1, 2} -> <<"reset_state", "set_unpacked_size", "rc_new", "process">>
      [] l = 3 -> <<"reset", "reset_state", "set_unpacked_size", "rc_new", "process">>

\* C10: the reset flags of a compressed status byte depend on its two-bit
\* level alone, as the table says; a property byte is read for level 3
\* only; a chunk of level 1 and the same chunk with level 2 are handled
\* alike.
C10_ResetLevels ==
    /\ (AtFirstDispatch /\ status >= 128) =>
         \A s \in 128..255 :
           /\ ResetFlags(s) = C10_Table(LevelOf(s))
           /\ LevelOf(s) = 1 =>
                /\ ResetFlags(s) = ResetFlags(s + 32)
                /\ Dispatch(s) = Dispatch(s + 32)
                /\ \A u \in LzmaUnpackedFields :
                     LzmaUnpackedSize(s, u) = LzmaUnpackedSize(s + 32, u)
    /\ (AtChunkStart /\ status >= 128) =>
         /\ Len(chunk) = 5 + (IF LevelOf(status) = 3 THEN 1 ELSE 0) + RcInitBytes
         /\ calls = C10_Calls(LevelOf(status))

C10_Witness ==
    /\ AtChunkStart
    /\ status = 192
    /\ Len(chunk) = 10
    /\ decoder.probs = "neutral"
    /\ lastCopy.dist > 0

\* Size fields at the ends and in the middle of the 16-bit range.
C11_Fields == {0, 1, 255, 256, 32767, 32768, 65534, 65535}

\* C11: the chunk sizes are the fields plus one, computed without wrapping:
\* a compressed chunk's unpacked size is ((status & 0x1F) << 16 | u) + 1, in
\* 1..2^21, its packed size p + 1, in 1..65536; an uncompressed chunk's size
\* is u + 1, in 1..65536 (0xFFFF gives 65536, not 0).  The sizes the chunk
\* handlers work with are these values, and no chunk completes without
\* output.
C11_SizeArithmetic ==
    /\ (AtFirstDispatch /\ status \in {1, 2}) =>
         \A u \in C11_Fields :
           /\ UncompressedSize(u) = u + 1
           /\ UncompressedSize(u) \in 1..65536
    /\ (AtFirstDispatch /\ status >= 128) =>
         \A f \in C11_Fields :
           /\ PackedSize(f) = f + 1
           /\ PackedSize(f) \in 1..65536
           /\ \A s \in 128..255 :
                /\ LzmaUnpackedSize(s, f) = ((s % 32) * 65536 + f) + 1
                /\ LzmaUnpackedSize(s, f) \in 1..2097152
    /\ (AtChunkStart /\ status >= 128) =>
         /\ decoder.unpacked_size =
              ((status % 32) * 65536 + ReadU16BE(chunk[2], chunk[3])) + 1
         /\ decoder.unpacked_size >= 1
         /\ limit + RcInitBytes = ReadU16BE(chunk[4], chunk[5]) + 1
    /\ (pc = "status" /\ status \in {1, 2}) =>
         /\ Len(chunk) = 3 + (ReadU16BE(chunk[2], chunk[3]) + 1)
         /\ Len(Output) - chunkBase = ReadU16BE(chunk[2], chunk[3]) + 1
    /\ (pc = "status" /\ status # -1) => Len(Output) > chunkBase

C11_Witness ==
    /\ AtChunkStart
    /\ status >= 128
    /\ ReadU16BE(chunk[2], chunk[3]) = 65535
    /\ decoder.unpacked_size = 65536
    /\ chunkBase > 0

\* A step of process in which the LZBuffer accepted a copy.
C12_CopyStep ==
    /\ pc = "process"
    /\ result' = "none"
    /\ Len(calls') = Len(calls) + 1
    /\ Last(calls') = "append_lz"

C12_Step ==
    C12_CopyStep =>
        LET d   == lastCopy'.dist
            n   == decoder.unpacked_size - decoder'.unpacked_size
            old == Len(output.buf)
        IN  /\ d \in 1..old
            /\ n >= 1
            /\ Len(output'.buf) = old + n
            /\ SubSeq(output'.buf, 1, old) = output.buf
            /\ \A i \in (old + 1)..(old + n) :
                 /\ output'.buf[i] = output'.buf[i - d]
                 /\ d = 1 => output'.buf[i] = output.buf[old]
            /\ output'.sink = output.sink

\* C12: a copy whose distance is within the history appends exactly
\* `length` bytes, each equal to the byte `distance` positions before the
\* end of the history when it is produced (bytes written earlier in the
\* same copy are sources); a copy of distance 1 and length N appends N
\* times the preceding byte, also for N greater than the distance.
C12_OverlappingCopy == [][C12_Step]_vars

C12_Witness ==
    /\ pc = "process"
    /\ result = "none"
    /\ Last(calls) = "append_lz"
    /\ lastCopy.dist = 1
    /\ lastCopy.hist = 1
    /\ output.buf = <<1, 1, 1>>

\* How often finish has been invoked.  Every call of the current chunk is in
\* `calls`, and C13_Step shows that finish is invoked in the last chunk only.
C13_Finishes == Cardinality({i \in DOMAIN calls : calls[i] = "finish"})

\* C13 as stated: every call of decode_stream invokes finish exactly once.
C13_ExactlyOncePerCall == pc = "done" => C13_Finishes = 1

C13_Step ==
    /\ (calls' # calls /\ "finish" \in Range(calls')) =>
         /\ pc = "dispatch"
         /\ status = 0
         /\ chunk = <<0>>
         /\ calls = <<>>
         /\ calls' = <<"finish">>
         /\ chunk' = chunk
         /\ pc' = "done"
    /\ (pc = "dispatch" /\ status = 0) => calls' = <<"finish">>
    /\ pc = "done" => (calls' = calls /\ output' = output)
    /\ (pc' = "done" /\ result' = "ok") =>
         /\ output'.finished
         /\ output'.buf = <<>>
         /\ output'.sink = Output
    /\ (pc' = "done" /\ status' # 0) => "finish" \notin Range(calls')

\* C13 (amended): finish is invoked at most once per call: exactly once in
\* every call that reads the end-of-stream marker 0x00, right after the
\* marker and so after every append, copy and reset of every chunk, with no
\* LZBuffer operation after it; a call that fails before the marker never
\* invokes it.
C13_FinishAtEnd == [][C13_Step]_vars

C13_Witness ==
    /\ pc = "done"
    /\ result = "ok"
    /\ calls = <<"finish">>
    /\ chunkBase = 3
    /\ output.sink # <<>>
    /\ sinceReset < 3

\* The length of a compressed chunk's header: status, two size fields and,
\* for level 3, the property byte.
HeaderLen(s) == 5 + (IF LevelOf(s) = 3 THEN 1 ELSE 0)

\* C14: when a compressed chunk has been processed successfully, exactly
\* packed_size input bytes have been consumed since the end of its header,
\* so the next status byte read is the byte right behind the packed region.
C14_PackedRegionConsumed ==
    (pc = "status" /\ status >= 128) =>
        Len(chunk) - HeaderLen(status) = ReadU16BE(chunk[4], chunk[5]) + 1

\* The input bytes consumed since the bounded reader of the current
\* compressed chunk was created.
C15_Consumed == Len(chunk) - HeaderLen(status)

\* C15: while and after a compressed chunk is processed, the bytes consumed
\* since its bounded reader was created are at most its packed_size, the
\* reader's remaining allowance being the difference; a read the cap or the
\* end of the input refuses ends the call with an error and delivers no
\* byte.
C15_BoundedView ==
    /\ (status >= 128 /\ "process" \in Range(calls)) =>
         /\ C15_Consumed >= RcInitBytes
         /\ C15_Consumed <= ReadU16BE(chunk[4], chunk[5]) + 1
         /\ limit = ReadU16BE(chunk[4], chunk[5]) + 1 - C15_Consumed
    /\ error = "rc-init" =>
         /\ status >= 128
         /\ C15_Consumed < RcInitBytes
         /\ C15_Consumed <= ReadU16BE(chunk[4], chunk[5]) + 1
         /\ Len(Output) = chunkBase
    /\ error = "decode-eof" => (status >= 128 /\ "process" \in Range(calls))

C15_Witness ==
    /\ error = "decode-eof"
    /\ limit = 0
    /\ C15_Consumed = 8
    /\ decoder.unpacked_size > 0
    /\ Len(Output) > chunkBase

\* The properties a DecoderState holds.
C16_Triple(d) == <<d.lc, d.lp, d.pb>>

\* The step is the header processing of a level-3 chunk whose property
\* byte is read and accepted.
C16_PropsAccepted ==
    /\ pc = "dispatch"
    /\ status >= 128
    /\ LevelOf(status) = 3
    /\ Len(chunk') >= 6
    /\ ~C6_Rejected(chunk'[6])

C16_Step ==
    /\ status = -1 => C16_Triple(decoder) = <<0, 0, 0>>
    /\ IF C16_PropsAccepted
       THEN C16_Triple(decoder') =
              <<chunk'[6] % 9, (chunk'[6] \div 9) % 5, chunk'[6] \div 45>>
       ELSE C16_Triple(decoder') = C16_Triple(decoder)
    /\ decoder.lc + decoder.lp <= 4
    /\ decoder.pb <= 4
    /\ (/\ pc = "dispatch"
        /\ status >= 128
        /\ LevelOf(status) \in {1, 2}
        /\ "set_unpacked_size" \in Range(calls')) =>
         /\ "reset_state" \in Range(calls')
         /\ decoder'.state = 0
         /\ decoder'.probs = "neutral"

\* C16: the DecoderState starts with (0, 0, 0) and its (lc, lp, pb) changes
\* in one way only: the accepted property byte of a level-3 chunk sets it.
\* So after any sequence of chunks it is the triple of the latest accepted
\* property byte, or (0, 0, 0); lc + lp <= 4 and pb <= 4 always hold; a
\* chunk of level 1 or 2 calls reset_state and keeps the triple.
C16_PropsPersist == [][C16_Step]_vars

C16_Witness ==
    /\ AtChunkStart
    /\ status \in {160, 192}
    /\ C16_Triple(decoder) = <<3, 0, 2>>
    /\ decoder.probs = "neutral"
    /\ lastCopy.dist > 0

\* The step carries out the header processing of the current chunk: an
\* uncompressed chunk gets past its optional dictionary reset, a compressed
\* chunk as far as set_unpacked_size.
HeaderProcessed ==
    /\ pc = "dispatch"
    /\ \/ status \in {1, 2} /\ error' \in {"", "body-eof"}
       \/ status >= 128 /\ "set_unpacked_size" \in Range(calls')

\* C17 as stated: across the header processing of a chunk the four rep
\* distances are cleared if the chunk declares reset_dict (status 0x01,
\* level 3) and left unchanged if it does not (status 0x02, levels 0-2).
C17_RepsResetOnDictOnly ==
    [][ HeaderProcessed =>
          IF DeclaresDictReset(status)
          THEN decoder'.rep = <<0, 0, 0, 0>>
          ELSE decoder'.rep = decoder.rep ]_vars

\* Whether a status byte declares reset_state.
DeclaresStateReset(s) == s >= 128 /\ LevelOf(s) \in {1, 2, 3}

\* C17 (amended): the rep distances are reset by reset_state and by nothing
\* else of the framing: the header processing of a chunk that declares
\* reset_state (levels 1, 2, 3) clears them, that of any other chunk
\* (status 0x01, 0x02, level 0) leaves them unchanged, and so does a header
\* that is rejected before reset_state.
C17_RepsResetOnStateReset ==
    [][ /\ HeaderProcessed =>
             IF DeclaresStateReset(status)
             THEN decoder'.rep = <<0, 0, 0, 0>>
             ELSE decoder'.rep = decoder.rep
        /\ (pc = "dispatch" /\ "reset_state" \notin Range(calls')) =>
             decoder'.rep = decoder.rep ]_vars

C17_Witness ==
    /\ AtChunkStart
    /\ status \in {160, 192}
    /\ lastCopy.dist = 2
    /\ decoder.rep = <<0, 0, 0, 0>>
    /\ Len(output.buf) = 4

C18_Step ==
    /\ (HeaderProcessed /\ DeclaresStateReset(status)) =>
         /\ decoder'.probs = "neutral"
         /\ decoder'.state = 0
    /\ (HeaderProcessed /\ status >= 128 /\ LevelOf(status) = 0) =>
         /\ decoder' = [decoder EXCEPT !.unpacked_size = decoder'.unpacked_size]
         /\ calls' \in {<<"set_unpacked_size", "rc_new">>,
                        <<"set_unpacked_size", "rc_new", "process">>}
    /\ (pc = "dispatch" /\ status < 128) => decoder' = decoder

\* C18: the header processing of a chunk reinitialises the probability
\* counters and the automaton state exactly if the chunk declares
\* reset_state (levels 1, 2, 3); a chunk of level 0 starts decoding with
\* counters, automaton state, (lc, lp, pb) as they were left, only the size
\* target being set; an uncompressed chunk, with or without dictionary
\* reset, leaves every field of the DecoderState unchanged.
C18_StateResetOnly == [][C18_Step]_vars

C18_Witness ==
    /\ AtChunkStart
    /\ status = 128
    /\ decoder.probs = "adapted"
    /\ decoder.state = 7
    /\ C16_Triple(decoder) = <<3, 0, 2>>
    /\ chunkBase > 0

\* The declared packed size of the current compressed chunk, from its
\* header bytes as the wire format defines it.
DeclaredPacked == ReadU16BE(chunk[4], chunk[5]) + 1

\* C19: the construction of the RangeDecoder takes exactly 5 bytes of the
\* bounded view; a chunk whose declared packed size is below 5, or whose
\* input ends within the 5 bytes, fails there: no symbol is decoded and no
\* byte of the chunk reaches the LZBuffer.
C19_RangeDecoderInit ==
    /\ (status >= 128 /\ "rc_new" \in Range(calls) /\ DeclaredPacked < 5) =>
         error = "rc-init"
    /\ error = "rc-init" =>
         /\ pc = "done"
         /\ result = "err"
         /\ status >= 128
         /\ Last(calls) = "rc_new"
         /\ "process" \notin Range(calls)
         /\ Len(Output) = chunkBase
    /\ (status >= 128 /\ "process" \in Range(calls)) =>
         /\ DeclaredPacked >= 5
         /\ C15_Consumed >= 5
    /\ (AtChunkStart /\ status >= 128) =>
         /\ C15_Consumed = 5
         /\ Len(Output) = chunkBase

C19_Witness ==
    /\ error = "rc-init"
    /\ DeclaredPacked = 4
    /\ chunkBase > 0
    /\ decoder.unpacked_size = 2

\* The operations of a compressed chunk of level l, in the order of the
\* claim, up to the construction of the RangeDecoder.
C20_UpToRcNew(l) == SubSeq(C10_Calls(l), 1, Len(C10_Calls(l)) - 1)

C20_Step ==
    (pc = "dispatch" /\ status >= 128) =>
        /\ error' = "size-eof" =>
             (Len(chunk') \in {1, 2} /\ calls' = <<>> /\ output' = output
              /\ decoder' = decoder)
        /\ error' = "psize-eof" =>
             (Len(chunk') \in {3, 4} /\ calls' = <<>> /\ output' = output
              /\ decoder' = decoder)
        /\ error' = "sink" =>
             (Len(chunk') = 5 /\ calls' = <<"reset">> /\ decoder' = decoder)
        /\ error' \in {"props-eof", "props-range", "props-lclp"} =>
             /\ LevelOf(status) = 3
             /\ Len(chunk') = IF error' = "props-eof" THEN 5 ELSE 6
             /\ calls' = <<"reset">>
             /\ output'.buf = <<>>
             /\ output'.sink = Output
             /\ decoder' = decoder
        /\ error' = "rc-init" =>
             /\ Len(chunk') \in HeaderLen(status)..(HeaderLen(status) + 4)
             /\ calls' = C20_UpToRcNew(LevelOf(status))
             /\ decoder'.unpacked_size =
                  ((status % 32) * 65536 + ReadU16BE(chunk'[2], chunk'[3])) + 1
        /\ pc' = "process" =>
             /\ Len(chunk') = HeaderLen(status) + 5
             /\ calls' = C10_Calls(LevelOf(status))
        /\ pc' = "process" \/
             error' \in {"size-eof", "psize-eof", "sink", "props-eof",
                         "props-range", "props-lclp", "rc-init"}

\* C20: a compressed chunk proceeds in the order: unpacked-size field,
\* packed-size field, reset of the LZBuffer (if reset_dict), property byte
\* read and validated (if reset_props), reset_state (if reset_state), size
\* target, RangeDecoder, process.  A level-3 chunk rejected for its property
\* byte, or for the lack of one, has reset the LZBuffer and left the
\* DecoderState unchanged; a chunk whose size fields cannot be read resets
\* nothing.
C20_HeaderOrder == [][C20_Step]_vars

C20_Witness ==
    /\ error = "props-lclp"
    /\ calls = <<"reset">>
    /\ output.buf = <<>>
    /\ Len(output.sink) = 3
    /\ decoder.probs = "adapted"
    /\ decoder.state = 7

=============================================================================
